---- MODULE Spec2Model ----
(***************************************************************************)
(* TDocumentImportancesEvaluator (catboost/libs/documents_importance/      *)
(* docs_importance_helpers.cpp): one call of GetDocumentImportances.       *)
(*                                                                         *)
(* A double is modelled as an exact rational <<n, d>> (d > 0, lowest       *)
(* terms); every sum and product is taken in the order the code takes it.  *)
(* A TVector indexed by an id is a function on 0..size-1; a vector that is *)
(* only iterated (leafIdToUpdate, LeavesDocId[leaf]) is a sequence.        *)
(***************************************************************************)
EXTENDS Integers, Sequences, FiniteSets, TLC

\* ------------------------------------------------------------------ bounds
MaxTreeCount == 2
MaxIterations == 2
MaxDepth == 2
MaxDocCount == 3
MaxPoolDocCount == 2
MaxSeed == 1
MaxThreadCount == 2

\* ------------------------------------------------------- double arithmetic
RECURSIVE GCD(_, _)
GCD(a, b) == IF b = 0 THEN a ELSE GCD(b, a % b)

IAbs(x) == IF x < 0 THEN -x ELSE x

Norm(n, d) ==
    LET s == IF d < 0 THEN -1 ELSE 1
        g == GCD(IAbs(n), IAbs(d))
    IN  IF n = 0 THEN <<0, 1>> ELSE <<(s * n) \div g, (s * d) \div g>>

R(n) == <<n, 1>>
Zero == <<0, 1>>
RAdd(x, y) ==
    LET g == GCD(x[2], y[2])
    IN  Norm(x[1] * (y[2] \div g) + y[1] * (x[2] \div g), (x[2] \div g) * y[2])
RNeg(x) == <<-x[1], x[2]>>
RSub(x, y) == RAdd(x, RNeg(y))
RMul(x, y) ==
    LET g1 == GCD(IAbs(x[1]), y[2])
        g2 == GCD(IAbs(y[1]), x[2])
    IN  Norm((x[1] \div g1) * (y[1] \div g2), (x[2] \div g2) * (y[2] \div g1))
RDiv(x, y) == RMul(x, Norm(y[2], y[1]))
Abs(x) == <<IAbs(x[1]), x[2]>>
RGt(x, y) == x[1] * y[2] > y[1] * x[2]

\* ------------------------------------------------------------------- state
VARIABLES
    \* the evaluator's fields, set by its constructor
    TreeCount, DocCount, ThreadCount, LeavesEstimationIterations, LearningRate,
    UpdateMethod, TreeSizes, TreesStatistics, FinalFirstDerivatives,
    \* the pool passed to GetDocumentImportances and the build's Sort
    pool, sortTies,
    \* GetDocumentImportances
    pc, leafIndices, treeTask, documentImportances, docTask,
    \* the locals of each phase 2 task (UpdateLeavesDerivatives)
    jacobian, leafDerivatives, leafIdToUpdate,
    \* history: the jacobian before the last step, every write, calls made
    prevJacobian, writes, evaluateDerivativesCalls

fields == <<TreeCount, DocCount, ThreadCount, LeavesEstimationIterations,
            LearningRate, UpdateMethod, TreeSizes, TreesStatistics>>
inputs == <<pool, sortTies>>
vars == <<fields, FinalFirstDerivatives, inputs, pc, leafIndices, treeTask,
          documentImportances, docTask, jacobian, leafDerivatives,
          leafIdToUpdate, prevJacobian, writes, evaluateDerivativesCalls>>

Trees == 0 .. TreeCount - 1
Docs == 0 .. DocCount - 1
Iterations == 0 .. LeavesEstimationIterations - 1
PoolDocs == 0 .. pool.DocCount - 1

RECURSIVE Pow2(_)
Pow2(k) == IF k = 0 THEN 1 ELSE 2 * Pow2(k - 1)

\* ------------------------------------------------- the constructor's inputs
\* The docs of a leaf, in ascending id order: the inverse of LeafIndices.
RECURSIVE DocsOfLeaf(_, _, _)
DocsOfLeaf(leafIdx, n, leaf) ==
    IF n = 0 THEN <<>>
    ELSE IF leafIdx[n - 1] = leaf
         THEN Append(DocsOfLeaf(leafIdx, n - 1, leaf), n - 1)
         ELSE DocsOfLeaf(leafIdx, n - 1, leaf)

\* The statistics tables of tree t over `leaves` leaves and `docs` documents,
\* `its` iterations; `seed` varies the literal values.
MakeTreeStatistics(t, leaves, docs, its, seed) ==
    LET leafIdx == [doc \in 0 .. docs - 1 |-> (doc * (seed + 1) + t) % leaves]
    IN  [ LeafCount |-> leaves,
          LeafIndices |-> leafIdx,
          LeavesDocId |-> [leaf \in 0 .. leaves - 1 |-> DocsOfLeaf(leafIdx, docs, leaf)],
          LeafValues |->
              [it \in 0 .. its - 1 |->
                  [leaf \in 0 .. leaves - 1 |-> R(((leaf + t + it) % 3) - 1)]],
          FormulaNumeratorMultiplier |->
              [it \in 0 .. its - 1 |->
                  [doc \in 0 .. docs - 1 |-> R(((doc + 3 * t + it + seed + 2) % 4) - 1)]],
          FormulaNumeratorAdding |->
              [it \in 0 .. its - 1 |->
                  [doc \in 0 .. docs - 1 |-> R(((3 * doc + 3 * t + 2 * it + seed + 3) % 4) - 1)]],
          FormulaDenominators |->
              [it \in 0 .. its - 1 |->
                  [leaf \in 0 .. leaves - 1 |-> R(1 + ((leaf + seed + t) % 2))]] ]

\* The pool: its size, targets and the leaf of every document in every tree
\* (what BuildIndicesForBinTree returns for it).
MakePool(trees, sizes, seed) ==
    [ DocCount |-> MaxPoolDocCount,
      Target |-> [e \in 0 .. MaxPoolDocCount - 1 |-> R(e + 1)],
      Indices |-> [t \in 0 .. trees - 1 |->
                      [e \in 0 .. MaxPoolDocCount - 1 |-> (e + t + seed) % Pow2(sizes[t])]] ]

UpdateMethods ==
    {[UpdateType |-> "AllPoints", TopSize |-> 0]}
        \cup {[UpdateType |-> "TopKLeaves", TopSize |-> k] : k \in {1, 2, Pow2(MaxDepth)}}

\* The state at the call of GetDocumentImportances.  The statistics tables
\* have Pow2(TreeSizes[t] + extra) leaves (extra = 0: as the ensemble says).
InitWith(extra, threads, treeCounts, iterations, methods, depthSeeds, seeds) ==
    /\ TreeCount \in treeCounts
    /\ DocCount = MaxDocCount
    /\ ThreadCount = threads
    /\ LeavesEstimationIterations \in iterations
    /\ LearningRate = <<1, 2>>
    /\ UpdateMethod \in methods
    /\ sortTies \in IF UpdateMethod.UpdateType = "TopKLeaves" THEN {"asc", "desc"} ELSE {"asc"}
    /\ \E depthSeed \in depthSeeds, seed \in seeds :
          /\ TreeSizes = [t \in 0 .. TreeCount - 1 |-> 1 + ((depthSeed + t) % MaxDepth)]
          /\ TreesStatistics =
                [t \in 0 .. TreeCount - 1 |->
                    MakeTreeStatistics(t, Pow2(TreeSizes[t] + extra), DocCount,
                                       LeavesEstimationIterations, seed)]
          /\ pool = MakePool(TreeCount, TreeSizes, seed)
    /\ FinalFirstDerivatives = <<>>
    /\ pc = "phase1"
    /\ leafIndices = [t \in 0 .. TreeCount - 1 |-> <<>>]
    /\ treeTask = [t \in 0 .. TreeCount - 1 |-> "todo"]
    /\ documentImportances = <<>>
    /\ docTask = [d \in 0 .. DocCount - 1 |-> [state |-> "todo", treeId |-> 0, it |-> 0]]
    /\ jacobian = [d \in 0 .. DocCount - 1 |-> <<>>]
    /\ leafDerivatives = [d \in 0 .. DocCount - 1 |-> <<>>]
    /\ leafIdToUpdate = [d \in 0 .. DocCount - 1 |-> <<>>]
    /\ prevJacobian = [d \in 0 .. DocCount - 1 |-> <<>>]
    /\ writes = {}
    /\ evaluateDerivativesCalls = 0

\* One worker thread, every shape of ensemble and every update method.
Init ==
    InitWith(0, 1, {1, MaxTreeCount}, {1, MaxIterations}, UpdateMethods,
             1 .. MaxDepth, 0 .. MaxSeed)

\* MaxThreadCount worker threads, the most trees, one iteration a tree.
InitParallel ==
    InitWith(0, MaxThreadCount, {MaxTreeCount}, {1},
             {m \in UpdateMethods : m.TopSize < 2}, {1}, 0 .. MaxSeed)


\* ------------------------------------------------------- GetLeafIdToUpdate
Min(a, b) == IF a < b THEN a ELSE b

\* leafJacobians after the loop over docId < k (lines 55-58).  A document
\* whose statistics leaf lies past leafCount writes out of the vector's
\* bounds; that write is outside the modelled memory (see Crash).
RECURSIVE LeafJacobians(_, _, _, _)
LeafJacobians(treeId, jac, leafCount, k) ==
    IF k = 0 THEN [leaf \in 0 .. leafCount - 1 |-> Zero]
    ELSE LET prev == LeafJacobians(treeId, jac, leafCount, k - 1)
             leaf == TreesStatistics[treeId].LeafIndices[k - 1]
         IN  IF leaf < leafCount
             THEN [prev EXCEPT ![leaf] = RAdd(@, Abs(jac[k - 1]))]
             ELSE prev

\* The comparator with the order reversed.
Less(leafJacobians, first, second) == RGt(leafJacobians[second], leafJacobians[first])

\* The comparator of the Sort call (lines 62-64).
Greater(leafJacobians, first, second) == RGt(leafJacobians[first], leafJacobians[second])

\* Sort (lines 60-64): descending by the comparator; leaves the comparator
\* does not order come out in the order this build's Sort leaves them in.
SortedLeaves(leafJacobians, leafCount) ==
    LET Before(a, b) ==
            \/ Greater(leafJacobians, a, b)
            \/ /\ ~Greater(leafJacobians, b, a)
               /\ IF sortTies = "asc" THEN a < b ELSE a > b
        Rank(a) == Cardinality({b \in 0 .. leafCount - 1 : Before(b, a)})
    IN  [i \in 1 .. leafCount |-> CHOOSE a \in 0 .. leafCount - 1 : Rank(a) = i - 1]

\* resize and std::iota (lines 51-52): 0, 1, .., leafCount - 1.
AllLeaves(leafCount) == [i \in 1 .. leafCount |-> i - 1]

GetLeafIdToUpdate(treeId, jac) ==
    LET leafCount == Pow2(TreeSizes[treeId])
    IN  IF UpdateMethod.UpdateType = "AllPoints"
        THEN AllLeaves(leafCount)
        ELSE IF UpdateMethod.UpdateType = "TopKLeaves"
        THEN SubSeq(SortedLeaves(LeafJacobians(treeId, jac, leafCount, DocCount), leafCount),
                    1, Min(UpdateMethod.TopSize, leafCount))
        ELSE <<>>

\* ------------------------------------------ UpdateLeavesDerivativesForTree
\* The inner loop of lines 151-153 over the first k docs of the leaf.
RECURSIVE AccumulateLeaf(_, _, _, _, _)
AccumulateLeaf(acc, docIds, mult, jac, k) ==
    IF k = 0 THEN acc
    ELSE RAdd(AccumulateLeaf(acc, docIds, mult, jac, k - 1),
              RMul(mult[docIds[k]], jac[docIds[k]]))

\* The factor without its sign.
ScaleUnsigned(denominators, leafId) == RDiv(LearningRate, denominators[leafId])

\* The factor of lines 157 and 163.
Scale(denominators, leafId) == RDiv(RNeg(LearningRate), denominators[leafId])

\* leafDerivativesRef after the loop of lines 150-159 over the first k
\* entries of leafIdToUpdate.
RECURSIVE DerivativesLoop(_, _, _, _, _, _)
DerivativesLoop(ids, removedDocId, jac, treeId, it, k) ==
    LET st == TreesStatistics[treeId]
    IN  IF k = 0 THEN [leaf \in 0 .. st.LeafCount - 1 |-> Zero]
        ELSE LET prev == DerivativesLoop(ids, removedDocId, jac, treeId, it, k - 1)
                 leafId == ids[k]
                 summed == AccumulateLeaf(prev[leafId], st.LeavesDocId[leafId],
                                          st.FormulaNumeratorMultiplier[it], jac,
                                          Len(st.LeavesDocId[leafId]))
                 added == IF leafId = st.LeafIndices[removedDocId]
                          THEN RAdd(summed, st.FormulaNumeratorAdding[it][removedDocId])
                          ELSE summed
             IN  [prev EXCEPT ![leafId] = RMul(added, Scale(st.FormulaDenominators[it], leafId))]

\* isRemovedDocUpdated assigned (=) instead of accumulated (|=): only the
\* last leaf visited counts.
IsRemovedDocUpdatedLast(ids, removedDocId, treeId) ==
    /\ Len(ids) > 0
    /\ ids[Len(ids)] = TreesStatistics[treeId].LeafIndices[removedDocId]

\* isRemovedDocUpdated after either loop over leafIdToUpdate (lines 158, 99).
IsRemovedDocUpdated(ids, removedDocId, treeId) ==
    \E k \in 1 .. Len(ids) : ids[k] = TreesStatistics[treeId].LeafIndices[removedDocId]

\* Without the correction of lines 160-164.
UpdateLeavesDerivativesForTreeNoCorrection(ids, removedDocId, jac, treeId, it) ==
    DerivativesLoop(ids, removedDocId, jac, treeId, it, Len(ids))

UpdateLeavesDerivativesForTree(ids, removedDocId, jac, treeId, it) ==
    LET st == TreesStatistics[treeId]
        removedDocLeafId == st.LeafIndices[removedDocId]
        looped == DerivativesLoop(ids, removedDocId, jac, treeId, it, Len(ids))
    IN  IF IsRemovedDocUpdated(ids, removedDocId, treeId) THEN looped
        ELSE [looped EXCEPT ![removedDocLeafId] =
                 RMul(RAdd(RAdd(@, RMul(jac[removedDocId],
                                        st.FormulaNumeratorMultiplier[it][removedDocId])),
                           st.FormulaNumeratorAdding[it][removedDocId]),
                      Scale(st.FormulaDenominators[it], removedDocLeafId))]

\* ------------------------------------- UpdateLeavesDerivatives, lines 93-104
\* jacobian after adding ders[leafId] to the first k docs of the leaf.
RECURSIVE AddToDocs(_, _, _, _)
AddToDocs(jac, docIds, value, k) ==
    IF k = 0 THEN jac
    ELSE LET prev == AddToDocs(jac, docIds, value, k - 1)
         IN  [prev EXCEPT ![docIds[k]] = RAdd(@, value)]

RECURSIVE JacobianLoop(_, _, _, _, _)
JacobianLoop(ids, jac, treeId, ders, k) ==
    IF k = 0 THEN jac
    ELSE LET docIds == TreesStatistics[treeId].LeavesDocId[ids[k]]
         IN  AddToDocs(JacobianLoop(ids, jac, treeId, ders, k - 1), docIds,
                       ders[ids[k]], Len(docIds))

\* The fallback of lines 101-104 applied to every document of r's leaf.
UpdateJacobianWholeLeaf(ids, removedDocId, jac, treeId, ders) ==
    LET looped == JacobianLoop(ids, jac, treeId, ders, Len(ids))
        removedDocLeafId == TreesStatistics[treeId].LeafIndices[removedDocId]
        docIds == TreesStatistics[treeId].LeavesDocId[removedDocLeafId]
    IN  IF IsRemovedDocUpdated(ids, removedDocId, treeId) THEN looped
        ELSE AddToDocs(looped, docIds, ders[removedDocLeafId], Len(docIds))

UpdateJacobian(ids, removedDocId, jac, treeId, ders) ==
    LET looped == JacobianLoop(ids, jac, treeId, ders, Len(ids))
        removedDocLeafId == TreesStatistics[treeId].LeafIndices[removedDocId]
    IN  IF IsRemovedDocUpdated(ids, removedDocId, treeId) THEN looped
        ELSE [looped EXCEPT ![removedDocId] = RAdd(@, ders[removedDocLeafId])]

\* ----------------- the two accumulations over (tree, iteration, document)
\* Lines 32-40 and 117-125: acc[docId] += table[treeId][it][indices[treeId][docId]]
\* for the first k (treeId, it) pairs, treeId outermost.
RECURSIVE SumOverTrees(_, _, _, _)
SumOverTrees(table, indices, docCount, k) ==
    IF k = 0 THEN [docId \in 0 .. docCount - 1 |-> Zero]
    ELSE LET prev == SumOverTrees(table, indices, docCount, k - 1)
             treeId == (k - 1) \div LeavesEstimationIterations
             it == (k - 1) % LeavesEstimationIterations
         IN  [docId \in 0 .. docCount - 1 |->
                 RAdd(prev[docId], table[treeId][it][indices[treeId][docId]])]

\* Without the factor FinalFirstDerivatives[docId] of line 128.
PredictedDerivativesOnly(ders, indices, docCount) ==
    SumOverTrees(ders, indices, docCount, TreeCount * LeavesEstimationIterations)

GetDocumentImportancesForOneTrainDoc(ders, indices, docCount) ==
    LET predictedDerivatives ==
            SumOverTrees(ders, indices, docCount, TreeCount * LeavesEstimationIterations)
    IN  [docId \in 0 .. docCount - 1 |->
            RMul(FinalFirstDerivatives[docId], predictedDerivatives[docId])]

\* The derivative source: the first derivative of the loss at the approxes.
EvaluateDerivatives(approxes, docCount) ==
    [docId \in 0 .. docCount - 1 |-> RSub(pool.Target[docId], approxes[docId])]

\* --------------------------------------------------- GetDocumentImportances
Wrote(task, locs) == writes' = writes \cup {[task |-> task, loc |-> l, pc |-> pc] : l \in locs}

\* The leaf of every pool document in the tree (index_calcer.h).
BuildIndicesForBinTree(treeId) == pool.Indices[treeId]

\* Every task writing row 0; every task working on jacobian 0; the second
\* ExecRange not waiting for its tasks.
RowSlotShared(docId) == 0
JacobianBufferShared(docId) == 0
Phase2NoWait == TRUE

\* The slot the phase 1 task of a tree writes (line 13) and the row the
\* phase 2 task of a document writes (line 23).
IndexSlot(treeId) == treeId
RowSlot(docId) == docId

\* The jacobian a phase 2 task works on: a local of its own call (line 76).
JacobianBuffer(docId) == docId

\* WAIT_COMPLETE of the two ExecRange calls (lines 14 and 24).
Phase1Complete == \A t \in Trees : treeTask[t] = "done"
Phase2Complete == \A d \in Docs : docTask[d].state = "done"

\* Lines 12-14: the task of one tree.
BuildLeafIndices(treeId) ==
    /\ pc = "phase1"
    /\ treeTask[treeId] = "todo"
    /\ leafIndices' = [leafIndices EXCEPT ![IndexSlot(treeId)] = BuildIndicesForBinTree(treeId)]
    /\ treeTask' = [treeTask EXCEPT ![treeId] = "done"]
    /\ Wrote(<<"tree", treeId>>, {<<"leafIndices", IndexSlot(treeId)>>})
    /\ UNCHANGED <<fields, FinalFirstDerivatives, inputs, pc, documentImportances, docTask,
                   jacobian, leafDerivatives, leafIdToUpdate, prevJacobian,
                   evaluateDerivativesCalls>>

\* Lines 16-17: past the first barrier, the final derivatives and the matrix.
UpdateFinalFirstDerivatives ==
    /\ pc = "phase1"
    /\ Phase1Complete
    /\ LET finalApproxes ==
               SumOverTrees([t \in Trees |-> TreesStatistics[t].LeafValues], leafIndices,
                            pool.DocCount, TreeCount * LeavesEstimationIterations)
       IN  FinalFirstDerivatives' = EvaluateDerivatives(finalApproxes, pool.DocCount)
    /\ evaluateDerivativesCalls' = evaluateDerivativesCalls + 1
    /\ documentImportances' = [d \in Docs |-> [e \in PoolDocs |-> Zero]]
    /\ pc' = "phase2"
    /\ Wrote(<<"main">>, {<<"FinalFirstDerivatives">>})
    /\ UNCHANGED <<fields, inputs, leafIndices, treeTask, docTask, jacobian, leafDerivatives,
                   leafIdToUpdate, prevJacobian>>

\* Lines 19-21 and 76: a worker takes the task of a document.
StartDocTask(docId) ==
    /\ pc = "phase2"
    /\ docTask[docId].state = "todo"
    /\ Cardinality({d \in Docs : docTask[d].state = "running"}) < ThreadCount
    /\ docTask' = [docTask EXCEPT ![docId].state = "running"]
    /\ leafDerivatives' = [leafDerivatives EXCEPT ![docId] =
                              [t \in Trees |-> [it \in Iterations |-> <<>>]]]
    /\ jacobian' = [jacobian EXCEPT ![JacobianBuffer(docId)] = [d \in Docs |-> Zero]]
    /\ Wrote(<<"doc", docId>>,
             {<<"jacobian", JacobianBuffer(docId)>>, <<"leafDerivatives", docId>>})
    /\ UNCHANGED <<fields, FinalFirstDerivatives, inputs, pc, leafIndices, treeTask,
                   documentImportances, leafIdToUpdate, prevJacobian,
                   evaluateDerivativesCalls>>

\* Lines 79-105: one (treeId, it) step of UpdateLeavesDerivatives.
UpdateLeavesDerivatives(removedDocId) ==
    /\ pc = "phase2"
    /\ docTask[removedDocId].state = "running"
    /\ docTask[removedDocId].treeId < TreeCount
    /\ LET treeId == docTask[removedDocId].treeId
           it == docTask[removedDocId].it
           jac == jacobian[JacobianBuffer(removedDocId)]
           ids == GetLeafIdToUpdate(treeId, jac)
           ders == UpdateLeavesDerivativesForTree(ids, removedDocId, jac, treeId, it)
           last == it + 1 = LeavesEstimationIterations
       IN  /\ leafIdToUpdate' = [leafIdToUpdate EXCEPT ![removedDocId] = ids]
           /\ leafDerivatives' = [leafDerivatives EXCEPT ![removedDocId][treeId][it] = ders]
           /\ jacobian' = [jacobian EXCEPT ![JacobianBuffer(removedDocId)] =
                              UpdateJacobian(ids, removedDocId, jac, treeId, ders)]
           /\ prevJacobian' = [prevJacobian EXCEPT ![removedDocId] = jac]
           /\ docTask' = [docTask EXCEPT ![removedDocId].treeId = IF last THEN treeId + 1 ELSE treeId,
                                         ![removedDocId].it = IF last THEN 0 ELSE it + 1]
    /\ Wrote(<<"doc", removedDocId>>,
             {<<"jacobian", JacobianBuffer(removedDocId)>>, <<"leafDerivatives", removedDocId>>})
    /\ UNCHANGED <<fields, FinalFirstDerivatives, inputs, pc, leafIndices, treeTask,
                   documentImportances, evaluateDerivativesCalls>>

\* Line 23: the row of the document.
WriteDocumentImportance(docId) ==
    /\ pc = "phase2"
    /\ docTask[docId].state = "running"
    /\ docTask[docId].treeId = TreeCount
    /\ documentImportances' =
           [documentImportances EXCEPT ![RowSlot(docId)] =
               GetDocumentImportancesForOneTrainDoc(
                   leafDerivatives[docId], leafIndices,
                   Cardinality(DOMAIN documentImportances[RowSlot(docId)]))]
    /\ docTask' = [docTask EXCEPT ![docId].state = "done"]
    /\ Wrote(<<"doc", docId>>, {<<"documentImportances", RowSlot(docId)>>})
    /\ UNCHANGED <<fields, FinalFirstDerivatives, inputs, pc, leafIndices, treeTask, jacobian,
                   leafDerivatives, leafIdToUpdate, prevJacobian, evaluateDerivativesCalls>>

\* Line 25: past the second barrier.
Return ==
    /\ pc = "phase2"
    /\ Phase2Complete
    /\ pc' = "returned"
    /\ UNCHANGED <<fields, FinalFirstDerivatives, inputs, leafIndices, treeTask,
                   documentImportances, docTask, jacobian, leafDerivatives, leafIdToUpdate,
                   prevJacobian, writes, evaluateDerivativesCalls>>

Next ==
    \/ \E treeId \in Trees : BuildLeafIndices(treeId)
    \/ UpdateFinalFirstDerivatives
    \/ \E docId \in Docs : StartDocTask(docId)
    \/ \E docId \in Docs : UpdateLeavesDerivatives(docId)
    \/ \E docId \in Docs : WriteDocumentImportance(docId)
    \/ Return

Spec == Init /\ [][Next]_vars

SpecParallel == InitParallel /\ [][Next]_vars

\* ============================================================== properties
RECURSIVE RSum(_, _)
RSum(f, S) ==
    IF S = {} THEN Zero
    ELSE LET x == CHOOSE y \in S : TRUE IN RAdd(f[x], RSum(f, S \ {x}))

Range(seq) == {seq[k] : k \in 1 .. Len(seq)}

\* The task of document d has executed at least one (tree, iteration) step;
\* LastTree, LastIt: the step it executed last.
Stepped(d) == docTask[d].state # "todo" /\ (docTask[d].treeId > 0 \/ docTask[d].it > 0)
LastTree(d) == IF docTask[d].it > 0 THEN docTask[d].treeId ELSE docTask[d].treeId - 1
LastIt(d) == IF docTask[d].it > 0 THEN docTask[d].it - 1 ELSE LeavesEstimationIterations - 1
LastDerivatives(d) == leafDerivatives[d][LastTree(d)][LastIt(d)]
LeafOf(treeId, doc) == TreesStatistics[treeId].LeafIndices[doc]
LeafDocs(treeId, leaf) == Range(TreesStatistics[treeId].LeavesDocId[leaf])

\* The aggregate mass of a leaf: the sum of |jac[doc]| over its documents.
Mass(treeId, jac, leaf) == RSum([doc \in Docs |-> Abs(jac[doc])], LeafDocs(treeId, leaf))
RGe(x, y) == ~RGt(y, x)

\* C9: under TopKLeaves GetLeafIdToUpdate returns exactly min(TopSize,
\* leafCount) pairwise distinct leaf ids of the tree, each with a mass greater
\* than or equal to the mass of every leaf not returned; under AllPoints it
\* returns every leaf id 0..leafCount-1 exactly once.
C9_LeafSelection ==
    \A d \in Docs : Stepped(d) =>
        LET treeId == LastTree(d)
            leafCount == Pow2(TreeSizes[treeId])
            ids == leafIdToUpdate[d]
        IN  /\ Range(ids) \subseteq 0 .. leafCount - 1
            /\ \A i, j \in 1 .. Len(ids) : i # j => ids[i] # ids[j]
            /\ UpdateMethod.UpdateType = "TopKLeaves" =>
                  /\ Len(ids) = Min(UpdateMethod.TopSize, leafCount)
                  /\ \A a \in Range(ids) : \A b \in (0 .. leafCount - 1) \ Range(ids) :
                        RGe(Mass(treeId, prevJacobian[d], a), Mass(treeId, prevJacobian[d], b))
            /\ UpdateMethod.UpdateType = "AllPoints" =>
                  /\ Len(ids) = leafCount
                  /\ Range(ids) = 0 .. leafCount - 1

\* A pruned selection that had to rank: a returned leaf outweighs a leaf of
\* lower id that was left out.
C9_Witness ==
    \E d \in Docs :
        /\ Stepped(d)
        /\ UpdateMethod.UpdateType = "TopKLeaves"
        /\ sortTies = "asc"
        /\ \E a \in Range(leafIdToUpdate[d]) :
              \E b \in (0 .. Pow2(TreeSizes[LastTree(d)]) - 1) \ Range(leafIdToUpdate[d]) :
                 /\ b < a
                 /\ RGt(Mass(LastTree(d), prevJacobian[d], a), Mass(LastTree(d), prevJacobian[d], b))

\* The sum the claims name: FormulaNumeratorMultiplier[doc] * jacobian[doc]
\* over the documents of the leaf.
WeightedSum(treeId, it, jac, leaf) ==
    RSum([doc \in Docs |->
             RMul(TreesStatistics[treeId].FormulaNumeratorMultiplier[it][doc], jac[doc])],
         LeafDocs(treeId, leaf))

\* C8: every selected leaf L gets -LearningRate / FormulaDenominators[L] times
\* (the sum over its documents of FormulaNumeratorMultiplier[doc] * jacobian[doc],
\* plus FormulaNumeratorAdding[r] exactly when L is r's leaf), from the
\* jacobian as it was before this iteration's update; in a single-tree,
\* single-iteration ensemble under AllPoints a leaf holding only r gets
\* -LearningRate * FormulaNumeratorAdding[r] / FormulaDenominators[leaf].
C8_LeafDerivative ==
    \A r \in Docs : Stepped(r) =>
        LET treeId == LastTree(r)
            it == LastIt(r)
            st == TreesStatistics[treeId]
        IN  \A L \in Range(leafIdToUpdate[r]) :
              /\ LastDerivatives(r)[L] =
                    RMul(RDiv(RNeg(LearningRate), st.FormulaDenominators[it][L]),
                         RAdd(WeightedSum(treeId, it, prevJacobian[r], L),
                              IF L = LeafOf(treeId, r)
                              THEN st.FormulaNumeratorAdding[it][r] ELSE Zero))
              /\ ( /\ TreeCount = 1
                   /\ LeavesEstimationIterations = 1
                   /\ UpdateMethod.UpdateType = "AllPoints"
                   /\ LeafDocs(treeId, L) = {r} )
                 => LastDerivatives(r)[L] =
                       RDiv(RMul(RNeg(LearningRate), st.FormulaNumeratorAdding[it][r]),
                            st.FormulaDenominators[it][L])

\* A selected leaf that holds r and another document, both with a jacobian
\* and a multiplier that count, and a derivative that is not zero.
C8_Witness ==
    \E r \in Docs :
        /\ Stepped(r)
        /\ LeafOf(LastTree(r), r) \in Range(leafIdToUpdate[r])
        /\ \E doc \in LeafDocs(LastTree(r), LeafOf(LastTree(r), r)) \ {r} :
              /\ RMul(TreesStatistics[LastTree(r)].FormulaNumeratorMultiplier[LastIt(r)][doc],
                      prevJacobian[r][doc]) # Zero
              /\ prevJacobian[r][r] # Zero
        /\ LastDerivatives(r)[LeafOf(LastTree(r), r)] # Zero

\* The removed document's leaf was not among the leaves of the last step.
RemovedLeafPruned(r) == Stepped(r) /\ LeafOf(LastTree(r), r) \notin Range(leafIdToUpdate[r])

\* C2: when r's leaf is not among the leaves GetLeafIdToUpdate returned, the
\* leaf derivative of r's leaf is still set, to -LearningRate * (jacobian[r] *
\* FormulaNumeratorMultiplier[r] + FormulaNumeratorAdding[r]) /
\* FormulaDenominators[r's leaf], using no other document of that leaf.
C2_RemovedLeafCorrection ==
    \A r \in Docs : RemovedLeafPruned(r) =>
        LET treeId == LastTree(r)
            it == LastIt(r)
            st == TreesStatistics[treeId]
        IN  LastDerivatives(r)[LeafOf(treeId, r)] =
                RDiv(RMul(RNeg(LearningRate),
                          RAdd(RMul(prevJacobian[r][r], st.FormulaNumeratorMultiplier[it][r]),
                               st.FormulaNumeratorAdding[it][r])),
                     st.FormulaDenominators[it][LeafOf(treeId, r)])

\* TopSize = 1, another leaf ranks strictly higher than r's, and the
\* correction has both of its terms: a jacobian and a derivative not zero.
C2_Witness ==
    \E r \in Docs :
        /\ RemovedLeafPruned(r)
        /\ UpdateMethod.TopSize = 1
        /\ \E a \in Range(leafIdToUpdate[r]) :
              RGt(Mass(LastTree(r), prevJacobian[r], a),
                  Mass(LastTree(r), prevJacobian[r], LeafOf(LastTree(r), r)))
        /\ RMul(prevJacobian[r][r],
                TreesStatistics[LastTree(r)].FormulaNumeratorMultiplier[LastIt(r)][r]) # Zero
        /\ LastDerivatives(r)[LeafOf(LastTree(r), r)] # Zero

\* C10: the jacobian update of a step adds leafDerivatives[L] to jacobian[doc]
\* for every document of every selected leaf L, once; when r's leaf was not
\* selected it adds the derivative of r's leaf to jacobian[r] alone; every
\* other document of a leaf not selected keeps its jacobian.
C10_JacobianUpdate ==
    \A r \in Docs : Stepped(r) =>
        \A doc \in Docs :
            jacobian[r][doc] =
                IF LeafOf(LastTree(r), doc) \in Range(leafIdToUpdate[r]) \/ doc = r
                THEN RAdd(prevJacobian[r][doc], LastDerivatives(r)[LeafOf(LastTree(r), doc)])
                ELSE prevJacobian[r][doc]

\* r's leaf is pruned and holds another document: r's jacobian moves, the
\* other document's does not, and a document of a selected leaf moves too.
C10_Witness ==
    \E r \in Docs :
        /\ RemovedLeafPruned(r)
        /\ jacobian[r][r] # prevJacobian[r][r]
        /\ \E x \in LeafDocs(LastTree(r), LeafOf(LastTree(r), r)) \ {r} :
              /\ jacobian[r][x] = prevJacobian[r][x]
              /\ prevJacobian[r][x] # Zero
        /\ \E y \in Docs :
              /\ LeafOf(LastTree(r), y) \in Range(leafIdToUpdate[r])
              /\ jacobian[r][y] # prevJacobian[r][y]

\* ------------------------------------------------------- reference results
\* The matrix row the claims name: FinalFirstDerivatives[e] times the sum over
\* every tree and iteration of ders[tree][iteration][indices[tree][e]].
ImportanceRow(ders, indices, firstDerivatives) ==
    [e \in PoolDocs |->
        RMul(firstDerivatives[e],
             RSum([p \in Trees \X Iterations |-> ders[p[1]][p[2]][indices[p[1]][e]]],
                  Trees \X Iterations))]

\* C6: documentImportances[d][e] equals FinalFirstDerivatives[e] times the sum
\* over every tree and iteration of leafDerivatives[tree][iteration]
\* [leafIndices[tree][e]] of removed document d; the matrix has one row per
\* training document and one column per evaluation document.
C6_ImportanceMatrix ==
    pc = "returned" =>
        /\ DOMAIN documentImportances = Docs
        /\ \A d \in Docs :
              /\ DOMAIN documentImportances[d] = PoolDocs
              /\ documentImportances[d] =
                    ImportanceRow(leafDerivatives[d], leafIndices, FinalFirstDerivatives)

\* A returned matrix that is not square, summed over several (tree,
\* iteration) pairs, with a score that is not zero in two rows.
C6_Witness ==
    /\ pc = "returned"
    /\ DocCount # pool.DocCount
    /\ TreeCount * LeavesEstimationIterations > 2
    /\ \E d1, d2 \in Docs :
          /\ d1 # d2
          /\ \E e \in PoolDocs : documentImportances[d1][e] # Zero
          /\ \E e \in PoolDocs : documentImportances[d2][e] # Zero

\* The propagator run for removed document r from a zero jacobian, k (tree,
\* iteration) steps in order; every leaf in id order when allPoints, else the
\* leaves the configured update method selects.
RECURSIVE Propagate(_, _, _)
Propagate(r, k, allPoints) ==
    IF k = 0
    THEN [jac |-> [d \in Docs |-> Zero], ders |-> [t \in Trees |-> [it \in Iterations |-> <<>>]]]
    ELSE LET prev == Propagate(r, k - 1, allPoints)
             treeId == (k - 1) \div LeavesEstimationIterations
             it == (k - 1) % LeavesEstimationIterations
             ids == IF allPoints THEN AllLeaves(Pow2(TreeSizes[treeId]))
                    ELSE GetLeafIdToUpdate(treeId, prev.jac)
             ders == UpdateLeavesDerivativesForTree(ids, r, prev.jac, treeId, it)
         IN  [jac |-> UpdateJacobian(ids, r, prev.jac, treeId, ders),
              ders |-> [prev.ders EXCEPT ![treeId][it] = ders]]

\* The matrix of a run that executes every task alone, in index order.
InputIndices == [t \in Trees |-> BuildIndicesForBinTree(t)]
InputFirstDerivatives ==
    EvaluateDerivatives(
        SumOverTrees([t \in Trees |-> TreesStatistics[t].LeafValues], InputIndices,
                     pool.DocCount, TreeCount * LeavesEstimationIterations),
        pool.DocCount)
SequentialImportances(allPoints) ==
    [d \in Docs |->
        ImportanceRow(Propagate(d, TreeCount * LeavesEstimationIterations, allPoints).ders,
                      InputIndices, InputFirstDerivatives)]

\* TopKLeaves with TopSize equal to the leaf count of the largest tree.
FullLeafCount == Pow2(CHOOSE s \in {TreeSizes[t] : t \in Trees} : \A t \in Trees : TreeSizes[t] <= s)
FullWidth == UpdateMethod.UpdateType = "TopKLeaves" /\ UpdateMethod.TopSize = FullLeafCount

\* C1: TopKLeaves with TopSize equal to the full leaf count returns the matrix
\* of AllPoints: at every (tree, iteration) the same set of leaves is
\* selected, and the leaf derivatives and the jacobian after the iteration
\* are those of visiting the leaves in id order.
C1_FullWidthIsAllPoints ==
    FullWidth =>
        /\ \A d \in Docs : Stepped(d) =>
              LET treeId == LastTree(d)
                  all == AllLeaves(Pow2(TreeSizes[treeId]))
              IN  /\ Range(leafIdToUpdate[d]) = Range(all)
                  /\ LastDerivatives(d) =
                        UpdateLeavesDerivativesForTree(all, d, prevJacobian[d], treeId, LastIt(d))
                  /\ jacobian[d] =
                        UpdateJacobian(all, d, prevJacobian[d], treeId, LastDerivatives(d))
        /\ pc = "returned" => documentImportances = SequentialImportances(TRUE)

\* A full-width run that visited the leaves of some step in another order
\* than AllPoints does and returned scores that are not zero.
C1_Witness ==
    /\ FullWidth
    /\ pc = "returned"
    /\ \E d \in Docs : leafIdToUpdate[d] # AllLeaves(Pow2(TreeSizes[LastTree(d)]))
    /\ \E d \in Docs : \E e \in PoolDocs : documentImportances[d][e] # Zero

\* ------------------------------------------------------------- concurrency
ParallelWrites == {w \in writes : w.task[1] \in {"tree", "doc"}}

\* C3 (locations): the phase 1 task of tree t writes only leafIndices[t]; the
\* phase 2 task of document d writes only documentImportances[d] and its own
\* jacobian and leaf-derivative buffers; no two tasks write one location.
C3_WritesDisjoint ==
    /\ \A w \in ParallelWrites :
          /\ w.task[1] = "tree" => w.pc = "phase1" /\ w.loc = <<"leafIndices", w.task[2]>>
          /\ w.task[1] = "doc" =>
                /\ w.pc = "phase2"
                /\ w.loc \in {<<"documentImportances", w.task[2]>>,
                              <<"jacobian", w.task[2]>>,
                              <<"leafDerivatives", w.task[2]>>}
    /\ \A w1, w2 \in ParallelWrites : w1.loc = w2.loc => w1.task = w2.task

\* C3 (shared state): a step taken during phase 2 leaves TreesStatistics,
\* FinalFirstDerivatives, leafIndices and the model as they were.
C3_SharedReadOnly ==
    pc = "phase2" =>
        UNCHANGED <<TreesStatistics, FinalFirstDerivatives, leafIndices, TreeSizes,
                    TreeCount, DocCount, LeavesEstimationIterations, LearningRate,
                    UpdateMethod, pool>>

\* C3: no two parallel tasks write the same location under any interleaving,
\* and during phase 2 the shared tables are only read.
C3_NoSharedWrites == []C3_WritesDisjoint /\ [][C3_SharedReadOnly]_vars

\* Two phase 2 tasks in flight at once, each past its first step, while a
\* third has written its row.
C3_Witness ==
    /\ \E d1, d2 \in Docs :
          /\ d1 # d2
          /\ docTask[d1].state = "running" /\ Stepped(d1)
          /\ docTask[d2].state = "running" /\ Stepped(d2)
    /\ \E d \in Docs : docTask[d].state = "done"
    /\ \A t \in Trees : \E w \in writes : w.task = <<"tree", t>>

\* C4: every phase 1 task has completed before UpdateFinalFirstDerivatives
\* reads leafIndices; EvaluateDerivatives is called exactly once, before any
\* phase 2 task starts; every phase 2 task has completed before the matrix is
\* returned.
C4_Barriers ==
    /\ evaluateDerivativesCalls <= 1
    /\ evaluateDerivativesCalls = 1 =>
          \A t \in Trees : treeTask[t] = "done" /\ leafIndices[t] = pool.Indices[t]
    /\ \A d \in Docs : docTask[d].state # "todo" => evaluateDerivativesCalls = 1
    /\ pc = "returned" =>
          /\ evaluateDerivativesCalls = 1
          /\ \A d \in Docs : docTask[d].state = "done"

\* The call has returned, after phase 1 tasks of several trees.
C4_Witness ==
    /\ pc = "returned"
    /\ TreeCount > 1
    /\ evaluateDerivativesCalls = 1

\* C5: every interleaving and completion order of the tasks returns the same
\* matrix, the one of running the tasks one after another in index order.
C5_Deterministic ==
    pc = "returned" => documentImportances = SequentialImportances(FALSE)

\* A matrix returned by several worker threads, with scores that are not
\* zero in two rows.
C5_Witness ==
    /\ pc = "returned"
    /\ ThreadCount > 1
    /\ \E d1, d2 \in Docs :
          /\ d1 # d2
          /\ \E e \in PoolDocs : documentImportances[d1][e] # Zero
          /\ \E e \in PoolDocs : documentImportances[d2][e] # Zero

\* ------------------------------------------------------ malformed ensembles
\* Statistics tables with twice the leaves the tree's depth gives.
InitMalformed ==
    InitWith(1, 1, {1, MaxTreeCount}, {1, MaxIterations}, UpdateMethods,
             1 .. MaxDepth, 0 .. MaxSeed)

\* Line 57 for a document whose statistics leaf is not below leafCount: a
\* write past the end of leafJacobians.  The build may fault there, or go on
\* (UpdateLeavesDerivatives, the stray write landing outside the vectors).
OutOfBoundsFault(docId) ==
    /\ pc = "phase2"
    /\ docTask[docId].state = "running"
    /\ docTask[docId].treeId < TreeCount
    /\ UpdateMethod.UpdateType = "TopKLeaves"
    /\ \E doc \in Docs :
          LeafOf(docTask[docId].treeId, doc) >= Pow2(TreeSizes[docTask[docId].treeId])
    /\ pc' = "fatal"
    /\ UNCHANGED <<fields, FinalFirstDerivatives, inputs, leafIndices, treeTask,
                   documentImportances, docTask, jacobian, leafDerivatives, leafIdToUpdate,
                   prevJacobian, writes, evaluateDerivativesCalls>>

NextMalformed ==
    \/ Next
    \/ \E docId \in Docs : OutOfBoundsFault(docId)

SpecMalformed == InitMalformed /\ [][NextMalformed]_vars

Malformed == \E t \in Trees : TreesStatistics[t].LeafCount # Pow2(TreeSizes[t])

\* C7: when a tree's statistics leaf count differs from 2^depth the
\* evaluation ends in a fatal error; no importance matrix is returned.
C7_MalformedIsFatal == Malformed => pc # "returned"

====
